---- MODULE Spec2Model ----
(***************************************************************************)
(* docker-notify: the watch/reconnect loop of main.go (start), the event   *)
(* classifiers makeStartMessage / makeDieMessage, and the delivery         *)
(* goroutine Message.Send / Message.post.                                  *)
(*                                                                         *)
(* The docker client (cli.Events, cli.ContainerLogs), the log reader and   *)
(* the HTTP transport are the environment: their outcomes are chosen       *)
(* nondeterministically, and a call that has not returned yet is a         *)
(* position of the goroutine that made it.                                 *)
(***************************************************************************)
EXTENDS Integers, Sequences, FiniteSets, TLC

VARIABLES
    env,        \* the process environment: API_VERSION, SLACK_URL, DISCORD_URL
    config,     \* *Config built by NewConfig (NoConfig before startup)
    pc,         \* position of the main goroutine
    subs,       \* the contexts of the calls of start so far: "live" / "canceled"
    srcDone,    \* the Events goroutine of the current subscription has sent its error
    errChan,    \* errChan of the current subscription (buffer of 1)
    msg,        \* the events.Message last received from msgChan
    nRecv,      \* number of messages received from msgChan so far
    reader,     \* the io.Reader returned by ContainerLogs while it is being read
    logCalls,   \* the calls of cli.ContainerLogs made so far
    tasks,      \* the goroutines started by `go m.Send(config)`
    logged      \* what log.Println / log.Fatal wrote

vars == <<env, config, pc, subs, srcDone, errChan, msg, nRecv, reader,
          logCalls, tasks, logged>>

-----------------------------------------------------------------------------
(* Bounds of the environment *)

MaxEvents == 2      \* events the source emits in a run
MaxErrors == 1      \* subscription errors the source raises in a run

-----------------------------------------------------------------------------
(* Program constants *)

Start == "start"
Die == "die"
SlackURLEnv == "SLACK_URL"
DiscordURLEnv == "DISCORD_URL"
StartColor == "#9ccc65"
DieColor == "#c62828"
\* One backquote character (a TLA+ string literal cannot hold one), and the
\* three-backquote marker makeDieMessage puts around the log.
BQ == "<bq>"
Fence == BQ \o BQ \o BQ

Nil == "nil"
NoConfig == [SlackURL |-> "", DiscordURL |-> "", null |-> TRUE]
NoMsg == [Status |-> "", From |-> "", Time |-> 0, ID |-> "",
          Attributes |-> [k \in {} |-> ""]]
NoReader == [open |-> FALSE, data |-> "", fails |-> FALSE]
NoMessage == [Text |-> "", Attachments |-> <<>>, null |-> TRUE]

-----------------------------------------------------------------------------
(* Inputs *)

ApiVersions == {"", "1.37"}
SlackURLs == {"", "https://hooks.slack.test/T"}
DiscordURLs == {"", "https://discord.test/api/webhooks/D"}

Statuses == {Start, Die, "create"}
AttrKeys == {"name", "exitCode"}
AttrVal(k) == IF k = "name" THEN "web1" ELSE "137"
AttrMaps == {[k \in S |-> AttrVal(k)] : S \in SUBSET AttrKeys}
Images == {"nginx:latest"}
LogBytes == {"", "oom-killed"}
\* What cli.ContainerLogs can return: no reader (an error), or a reader that
\* yields its data and then ends with io.EOF or with a read error.
Readers ==
    {[open |-> TRUE, data |-> d, fails |-> FALSE] : d \in LogBytes}
        \cup {[open |-> TRUE, data |-> "oom", fails |-> TRUE]}

\* The n-th event of the source; its time is the source's clock. Only a die
\* event carries an exitCode.
Events(n) ==
    {e \in [Status : Statuses, From : Images, Time : {1000 * n}, ID : {"c1"},
            Attributes : AttrMaps] :
        e.Status = Die \/ "exitCode" \notin DOMAIN e.Attributes}

-----------------------------------------------------------------------------
(* Config *)

NewConfigUnchecked(e) ==
    [config |-> [SlackURL |-> e.SLACK_URL, DiscordURL |-> e.DISCORD_URL, null |-> FALSE],
     err |-> Nil]

NewConfig(e) ==
    LET slackURL == e.SLACK_URL
        discordURL == e.DISCORD_URL
    IN  IF slackURL = "" /\ discordURL = ""
        THEN [config |-> NoConfig,
              err |-> SlackURLEnv \o " and/or " \o DiscordURLEnv \o " must be set"]
        ELSE [config |-> [SlackURL |-> slackURL, DiscordURL |-> discordURL,
                          null |-> FALSE],
              err |-> Nil]

-----------------------------------------------------------------------------
(* Payload model *)

\* An Attachment with the given fields set and every other field at Go's zero
\* value; Fields is a nil slice.
Attachment(title, color, ts, text) ==
    [Fallback |-> "", Pretext |-> "", Color |-> color, Title |-> title,
     TitleLink |-> "", Text |-> text, AuthorName |-> "", AuthorLink |-> "",
     AuthorIcon |-> "", Footer |-> "", FooterIcon |-> "", TS |-> ts,
     Fields |-> [nil |-> TRUE, elems |-> <<>>]]

Message(atts) == [Text |-> "", Attachments |-> atts, null |-> FALSE]

HasAttr(m, k) == k \in DOMAIN m.Attributes

makeStartMessageNoName(m) ==
    [m |-> Message(<<Attachment("Container " \o m.From \o " started",
                                StartColor, m.Time, "")>>),
     err |-> Nil]

makeStartMessage(m) ==
    IF ~HasAttr(m, "name")
    THEN [m |-> NoMessage, err |-> "no name"]
    ELSE [m |-> Message(<<Attachment(
                    "Container started. name => " \o m.Attributes["name"]
                        \o " image => " \o m.From,
                    StartColor, m.Time, "")>>),
          err |-> Nil]


\* msg.Actor.Attributes[k] with the comma-ok form: the zero value when absent.
Lookup(m, k) ==
    IF HasAttr(m, k) THEN [v |-> m.Attributes[k], ok |-> TRUE]
    ELSE [v |-> "", ok |-> FALSE]

\* The attribute checks of makeDieMessage, made before the reader is read.
dieAttrErrNoExitCode(m) ==
    IF ~Lookup(m, "name").ok THEN "no name" ELSE Nil

dieAttrErr(m) ==
    IF ~Lookup(m, "exitCode").ok THEN "no exitCode"
    ELSE IF ~Lookup(m, "name").ok THEN "no name"
    ELSE Nil

DieTitle(m) ==
    "Container died. name => " \o Lookup(m, "name").v
        \o " image => " \o m.From
        \o " status code => " \o Lookup(m, "exitCode").v

\* rd is what ioutil.ReadAll(logReder) returns: [b, err].
makeDieMessageRaw(m, rd) ==
    IF dieAttrErr(m) # Nil THEN [m |-> NoMessage, err |-> dieAttrErr(m)]
    ELSE IF rd.err # Nil THEN [m |-> NoMessage, err |-> rd.err]
    ELSE [m |-> Message(<<Attachment(DieTitle(m), DieColor, m.Time, rd.b)>>),
          err |-> Nil]

makeDieMessage(m, rd) ==
    IF dieAttrErr(m) # Nil THEN [m |-> NoMessage, err |-> dieAttrErr(m)]
    ELSE IF rd.err # Nil THEN [m |-> NoMessage, err |-> rd.err]
    ELSE [m |-> Message(<<Attachment(DieTitle(m), DieColor, m.Time,
                                     Fence \o rd.b \o Fence)>>),
          err |-> Nil]

\* ioutil.ReadAll on a reader: all its bytes, or the error that ended the read.
ReadAll(r) ==
    IF r.fails THEN [b |-> r.data, err |-> "read error"]
    ELSE [b |-> r.data, err |-> Nil]

\* json.Marshal of a Message, as a JSON value keyed by the struct tags; a nil
\* slice is encoded as null.
MarshalSliceArray(s) == [kind |-> "array", elems |-> s.elems]

MarshalSlice(s) ==
    IF s.nil THEN [kind |-> "null", elems |-> <<>>]
    ELSE [kind |-> "array", elems |-> s.elems]

MarshalAttachment(a) ==
    [fallback |-> a.Fallback, pretext |-> a.Pretext, color |-> a.Color,
     title |-> a.Title, title_link |-> a.TitleLink, text |-> a.Text,
     author_name |-> a.AuthorName, author_link |-> a.AuthorLink,
     author_icon |-> a.AuthorIcon, footer |-> a.Footer,
     footer_icon |-> a.FooterIcon, ts |-> a.TS,
     fields |-> MarshalSlice(a.Fields)]

Marshal(m) ==
    [text |-> m.Text,
     attachments |-> [i \in 1..Len(m.Attachments) |->
                        MarshalAttachment(m.Attachments[i])]]

NoBody == [text |-> "", attachments |-> <<>>]

-----------------------------------------------------------------------------
(* State *)

Alive == pc \notin {"fatal"}
Cur == Len(subs)
Log(at, id, err) == [at |-> at, id |-> id, err |-> err]

Init ==
    /\ env \in [API_VERSION : ApiVersions, SLACK_URL : SlackURLs,
                DISCORD_URL : DiscordURLs]
    /\ config = NoConfig
    /\ pc = "main"
    /\ subs = <<>>
    /\ srcDone = FALSE
    /\ errChan = <<>>
    /\ msg = NoMsg
    /\ nRecv = 0
    /\ reader = NoReader
    /\ logCalls = {}
    /\ tasks = <<>>
    /\ logged = {}

Fatal(what) ==
    /\ pc' = "fatal"
    /\ logged' = logged \cup {Log("main", 0, what)}
    /\ UNCHANGED config

\* main, up to its for loop: API_VERSION, NewConfig, NewClientWithOpts.
Startup(clientOK) ==
    /\ pc = "main"
    /\ IF env.API_VERSION = ""
       THEN Fatal("API_VERSION must be set as your docker api version")
       ELSE IF NewConfig(env).err # Nil
       THEN Fatal(NewConfig(env).err)
       ELSE IF ~clientOK
       THEN Fatal("client error")
       ELSE /\ config' = NewConfig(env).config
            /\ pc' = "loop"
            /\ UNCHANGED logged
    /\ UNCHANGED <<env, subs, srcDone, errChan, msg, nRecv, reader, logCalls, tasks>>

\* main calling start once, with no loop around the call.
StartOpenOnce ==
    /\ pc = "loop"
    /\ subs = <<>>
    /\ subs' = Append(subs, "live")
    /\ srcDone' = FALSE
    /\ errChan' = <<>>
    /\ pc' = "select"
    /\ UNCHANGED <<env, config, msg, nRecv, reader, logCalls, tasks, logged>>

\* A reconnect after which the source delivers the last event again.
StartOpenReplay ==
    /\ pc = "loop"
    /\ subs' = Append(subs, "live")
    /\ srcDone' = FALSE
    /\ errChan' = <<>>
    /\ pc' = "select"
    /\ nRecv' = IF nRecv > 0 THEN nRecv - 1 ELSE 0
    /\ UNCHANGED <<env, config, msg, reader, logCalls, tasks, logged>>

\* main's for loop calls start: a new context, and cli.Events on it.
StartOpen ==
    /\ pc = "loop"
    /\ subs' = Append(subs, "live")
    /\ srcDone' = FALSE
    /\ errChan' = <<>>
    /\ pc' = "select"
    /\ UNCHANGED <<env, config, msg, nRecv, reader, logCalls, tasks, logged>>

\* The Events goroutine of the client ends: it sends its error (a failed
\* open, a decode error, io.EOF when the stream closes) and sends no more
\* messages.
SourceError ==
    /\ Alive
    /\ Cur > 0
    /\ subs[Cur] = "live"
    /\ ~srcDone
    /\ Cur <= MaxErrors
    /\ srcDone' = TRUE
    /\ errChan' = Append(errChan, "EOF")
    /\ UNCHANGED <<env, config, pc, subs, msg, nRecv, reader, logCalls, tasks, logged>>


\* `go m.Send(config)`: a new goroutine; the loop goes back to its select.
GoSendSync(ev, e, m) ==
    /\ tasks' = Append(tasks, [ev |-> ev, msg |-> e, m |-> m, b |-> NoBody,
                               pc |-> "start", posts |-> <<>>])
    /\ pc' = "send"

GoSend(ev, e, m) ==
    /\ tasks' = Append(tasks, [ev |-> ev, msg |-> e, m |-> m, b |-> NoBody,
                               pc |-> "start", posts |-> <<>>])
    /\ pc' = "select"

\* A loop that takes the next message while a log fetch is still pending.
CanRecvAnytime ==
    /\ pc \in {"select", "logs", "read"}
    /\ subs[Cur] = "live"
    /\ ~srcDone
    /\ nRecv < MaxEvents

\* The select of start has a message ready: the source is still sending.
CanRecv ==
    /\ pc = "select"
    /\ subs[Cur] = "live"
    /\ ~srcDone
    /\ nRecv < MaxEvents

\* case msg := <-msgChan, msg.Status == Start
HandleStart(e) ==
    /\ CanRecv
    /\ e.Status = Start
    /\ msg' = e
    /\ nRecv' = nRecv + 1
    /\ LET r == makeStartMessage(e)
       IN  IF r.err # Nil
           THEN /\ logged' = logged \cup {Log("event", nRecv + 1, r.err)}
                /\ UNCHANGED <<pc, tasks>>
           ELSE /\ GoSend(nRecv + 1, e, r.m)
                /\ UNCHANGED logged
    /\ UNCHANGED <<env, config, subs, srcDone, errChan, reader, logCalls>>

\* case msg := <-msgChan, msg.Status == Die: the call of cli.ContainerLogs.
HandleDie(e) ==
    /\ CanRecv
    /\ e.Status = Die
    /\ msg' = e
    /\ nRecv' = nRecv + 1
    /\ logCalls' = logCalls \cup
            {[ev |-> nRecv + 1, ctx |-> Cur, container |-> e.ID, Since |-> "30s",
              ShowStdout |-> TRUE, ShowStderr |-> TRUE]}
    /\ pc' = "logs"
    /\ UNCHANGED <<env, config, subs, srcDone, errChan, reader, tasks, logged>>

\* A switch with a default case that logs the message.
HandleOtherLogged(e) ==
    /\ CanRecv
    /\ e.Status \notin {Start, Die}
    /\ msg' = e
    /\ nRecv' = nRecv + 1
    /\ logged' = logged \cup {Log("event", nRecv + 1, e.Status)}
    /\ UNCHANGED <<env, config, pc, subs, srcDone, errChan, reader, logCalls, tasks>>

\* case msg := <-msgChan with any other status: the switch has no case for it.
HandleOther(e) ==
    /\ CanRecv
    /\ e.Status \notin {Start, Die}
    /\ msg' = e
    /\ nRecv' = nRecv + 1
    /\ UNCHANGED <<env, config, pc, subs, srcDone, errChan, reader, logCalls,
                   tasks, logged>>

\* cli.ContainerLogs returns r (NoReader: an error). With a reader,
\* makeDieMessage checks the attributes and starts ioutil.ReadAll.
LogsReturn(r) ==
    /\ pc = "logs"
    /\ IF ~r.open
       THEN /\ logged' = logged \cup {Log("event", nRecv, "logs error")}
            /\ pc' = "select"
            /\ UNCHANGED reader
       ELSE IF dieAttrErr(msg) # Nil
       THEN /\ logged' = logged \cup {Log("event", nRecv, dieAttrErr(msg))}
            /\ pc' = "select"
            /\ UNCHANGED reader
       ELSE /\ reader' = r
            /\ pc' = "read"
            /\ UNCHANGED logged
    /\ UNCHANGED <<env, config, subs, srcDone, errChan, msg, nRecv, logCalls, tasks>>

\* A read error handled with log.Fatal instead of log.Println and continue.
ReadReturnFatal ==
    /\ pc = "read"
    /\ reader' = NoReader
    /\ LET r == makeDieMessage(msg, ReadAll(reader))
       IN  IF r.err # Nil
           THEN /\ logged' = logged \cup {Log("event", nRecv, r.err)}
                /\ pc' = "fatal"
                /\ UNCHANGED tasks
           ELSE /\ GoSend(nRecv, msg, r.m)
                /\ UNCHANGED logged
    /\ UNCHANGED <<env, config, subs, srcDone, errChan, msg, nRecv, logCalls>>

\* ioutil.ReadAll returns; makeDieMessage returns and the message is sent.
ReadReturn ==
    /\ pc = "read"
    /\ reader' = NoReader
    /\ LET r == makeDieMessage(msg, ReadAll(reader))
       IN  IF r.err # Nil
           THEN /\ logged' = logged \cup {Log("event", nRecv, r.err)}
                /\ pc' = "select"
                /\ UNCHANGED tasks
           ELSE /\ GoSend(nRecv, msg, r.m)
                /\ UNCHANGED logged
    /\ UNCHANGED <<env, config, subs, srcDone, errChan, msg, nRecv, logCalls>>

\* Deliveries tied to the subscription's context: its cancel ends them.
RecvErrCancelTasks ==
    /\ pc = "select"
    /\ errChan # <<>>
    /\ errChan' = Tail(errChan)
    /\ subs' = [subs EXCEPT ![Cur] = "canceled"]
    /\ logged' = logged \cup {Log("main", Cur, Head(errChan))}
    /\ pc' = "loop"
    /\ tasks' = [t \in 1..Len(tasks) |->
                    IF tasks[t].pc = "done" THEN tasks[t]
                    ELSE [tasks[t] EXCEPT !.pc = "done"]]
    /\ UNCHANGED <<env, config, srcDone, msg, nRecv, reader, logCalls>>

\* start without its deferred cancel.
RecvErrNoCancel ==
    /\ pc = "select"
    /\ errChan # <<>>
    /\ errChan' = Tail(errChan)
    /\ logged' = logged \cup {Log("main", Cur, Head(errChan))}
    /\ pc' = "loop"
    /\ UNCHANGED <<env, config, subs, srcDone, msg, nRecv, reader, logCalls, tasks>>

\* case err = <-errChan: break L, the deferred cancel, and back in main's loop.
RecvErr ==
    /\ pc = "select"
    /\ errChan # <<>>
    /\ errChan' = Tail(errChan)
    /\ subs' = [subs EXCEPT ![Cur] = "canceled"]
    /\ logged' = logged \cup {Log("main", Cur, Head(errChan))}
    /\ pc' = "loop"
    /\ UNCHANGED <<env, config, srcDone, msg, nRecv, reader, logCalls, tasks>>

-----------------------------------------------------------------------------
(* Message.Send, one goroutine per task *)

Post(t, u, b, at) ==
    [tasks EXCEPT ![t] = [@ EXCEPT !.b = b, !.pc = at,
                                   !.posts = Append(@, [u |-> u, body |-> b])]]

Finish(t, b) == [tasks EXCEPT ![t] = [@ EXCEPT !.b = b, !.pc = "done"]]

\* Send without the tests of the URLs against "".
SendStartUnchecked(t) ==
    /\ Alive
    /\ tasks[t].pc = "start"
    /\ tasks' = Post(t, config.SlackURL, Marshal(tasks[t].m), "slack")
    /\ UNCHANGED <<env, config, pc, subs, srcDone, errChan, msg, nRecv, reader,
                   logCalls, logged>>

\* Send up to its first http.Post.
SendStart(t) ==
    /\ Alive
    /\ tasks[t].pc = "start"
    /\ LET b == Marshal(tasks[t].m)
       IN  IF config.SlackURL # ""
           THEN tasks' = Post(t, config.SlackURL, b, "slack")
           ELSE IF config.DiscordURL # ""
           THEN tasks' = Post(t, config.DiscordURL, b, "discord")
           ELSE tasks' = Finish(t, b)
    /\ UNCHANGED <<env, config, pc, subs, srcDone, errChan, msg, nRecv, reader,
                   logCalls, logged>>

\* A failed POST to SlackURL that is made once more.
PostSlackReturnRetry(t, ok) ==
    /\ Alive
    /\ tasks[t].pc = "slack"
    /\ IF ~ok
       THEN /\ logged' = logged \cup {Log("send", t, "post error")}
            /\ IF Len(tasks[t].posts) < 2
               THEN tasks' = Post(t, config.SlackURL, tasks[t].b, "slack")
               ELSE tasks' = Finish(t, tasks[t].b)
       ELSE /\ UNCHANGED logged
            /\ IF config.DiscordURL # ""
               THEN tasks' = Post(t, config.DiscordURL, tasks[t].b, "discord")
               ELSE tasks' = Finish(t, tasks[t].b)
    /\ UNCHANGED <<env, config, pc, subs, srcDone, errChan, msg, nRecv, reader,
                   logCalls>>

\* A failed POST to SlackURL after which Send goes on to DiscordURL.
PostSlackReturnContinue(t, ok) ==
    /\ Alive
    /\ tasks[t].pc = "slack"
    /\ IF ~ok
       THEN logged' = logged \cup {Log("send", t, "post error")}
       ELSE UNCHANGED logged
    /\ IF config.DiscordURL # ""
       THEN tasks' = Post(t, config.DiscordURL, tasks[t].b, "discord")
       ELSE tasks' = Finish(t, tasks[t].b)
    /\ UNCHANGED <<env, config, pc, subs, srcDone, errChan, msg, nRecv, reader,
                   logCalls>>

\* The POST to SlackURL returns.
PostSlackReturn(t, ok) ==
    /\ Alive
    /\ tasks[t].pc = "slack"
    /\ IF ~ok
       THEN /\ logged' = logged \cup {Log("send", t, "post error")}
            /\ tasks' = Finish(t, tasks[t].b)
       ELSE /\ UNCHANGED logged
            /\ IF config.DiscordURL # ""
               THEN tasks' = Post(t, config.DiscordURL, tasks[t].b, "discord")
               ELSE tasks' = Finish(t, tasks[t].b)
    /\ UNCHANGED <<env, config, pc, subs, srcDone, errChan, msg, nRecv, reader,
                   logCalls>>

\* The POST to DiscordURL returns.
PostDiscordReturn(t, ok) ==
    /\ Alive
    /\ tasks[t].pc = "discord"
    /\ IF ~ok
       THEN logged' = logged \cup {Log("send", t, "post error")}
       ELSE UNCHANGED logged
    /\ tasks' = Finish(t, tasks[t].b)
    /\ UNCHANGED <<env, config, pc, subs, srcDone, errChan, msg, nRecv, reader,
                   logCalls>>

-----------------------------------------------------------------------------

Next ==
    \/ \E clientOK \in BOOLEAN : Startup(clientOK)
    \/ StartOpen
    \/ SourceError
    \/ \E e \in Events(nRecv + 1) : HandleStart(e)
    \/ \E e \in Events(nRecv + 1) : HandleDie(e)
    \/ \E e \in Events(nRecv + 1) : HandleOther(e)
    \/ \E r \in Readers \cup {NoReader} : LogsReturn(r)
    \/ ReadReturn
    \/ RecvErr
    \/ \E t \in 1..Len(tasks) : SendStart(t)
    \/ \E t \in 1..Len(tasks), ok \in BOOLEAN : PostSlackReturn(t, ok)
    \/ \E t \in 1..Len(tasks), ok \in BOOLEAN : PostDiscordReturn(t, ok)

Spec == Init /\ [][Next]_vars

\* The main goroutine is scheduled: once start has returned, main's loop
\* calls it again.
FairSpec == Spec /\ WF_vars(StartOpen)

\* Every step of the main goroutine that waits for nothing outside the
\* process is taken: the next call of start, and the receive of an error that
\* is ready at the select. The returns of cli.ContainerLogs, of the reader and
\* of http.Post are the environment's.
FairLoopSpec == Spec /\ WF_vars(StartOpen) /\ WF_vars(RecvErr)

-----------------------------------------------------------------------------
(* Shorthands of the properties *)

Running == pc \in {"loop", "select", "logs", "read"}
Streaming == pc \in {"select", "logs", "read"}
BothSinks == config.SlackURL # "" /\ config.DiscordURL # ""
Received == nRecv' = nRecv + 1
Spawned == Len(tasks') = Len(tasks) + 1
NewTask == tasks'[Len(tasks')]
OldTasksKept == SubSeq(tasks', 1, Len(tasks)) = tasks
PostedTo(t) == {tasks[t].posts[i].u : i \in 1..Len(tasks[t].posts)}
EventLogs(i) == {l \in logged : l.at = "event" /\ l.id = i}

-----------------------------------------------------------------------------
\* C1: for a die event that carries name and exitCode, a failed log fetch
\* (ContainerLogs returns an error, or the read of its reader fails) still
\* ends with a payload of empty body text handed to a delivery goroutine.
C1_LogFailureStillNotifies ==
    [][(/\ pc \in {"logs", "read"}
        /\ pc' \notin {"logs", "read"}
        /\ dieAttrErr(msg) = Nil
        /\ (pc = "logs" \/ reader.fails))
       => (/\ Spawned
           /\ NewTask.ev = nRecv
           /\ Len(NewTask.m.Attachments) = 1
           /\ NewTask.m.Attachments[1].Text = "")]_vars

\* C2: with both endpoints configured, a finished Send has made a delivery
\* attempt to each of them, whatever the outcome of the other attempt.
C2_EveryConfiguredSinkAttempted ==
    \A t \in 1..Len(tasks) :
        (tasks[t].pc = "done" /\ BothSinks)
            => PostedTo(t) = {config.SlackURL, config.DiscordURL}

\* C3: the step that hands a payload to a delivery goroutine leaves the loop
\* at its select with the new goroutine not yet run (no POST made, none
\* awaited) and the other deliveries as they were; the main goroutine has no
\* position in which it waits for a delivery.
C3_HandoffDoesNotWait ==
    /\ [](pc \in {"main", "fatal", "loop", "select", "logs", "read"})
    /\ [][Spawned => (/\ pc' = "select"
                      /\ NewTask.pc = "start"
                      /\ NewTask.posts = <<>>
                      /\ OldTasksKept)]_vars

\* The loop is back at its select, the second event consumed, while the
\* POSTs of two payloads are both still pending.
C3_Witness ==
    /\ pc = "select"
    /\ nRecv = 2
    /\ Len(tasks) = 2
    /\ \A t \in 1..2 : tasks[t].pc \in {"slack", "discord"}

\* C4: receiving from errChan ends the call of start with its context
\* canceled and the process alive in main's loop, and from there a new
\* subscription is eventually open and live.
C4_ErrorLeadsToResubscribe ==
    /\ [][(Len(errChan') < Len(errChan) /\ Len(subs') = Len(subs))
            => (/\ pc = "select"
                /\ pc' = "loop"
                /\ subs'[Cur] = "canceled")]_vars
    /\ (pc = "loop" /\ Cur > 0 /\ subs[Cur] = "canceled")
            ~> (pc = "select" /\ Cur > 1 /\ subs[Cur] = "live"
                    /\ subs[Cur - 1] = "canceled" /\ errChan = <<>>)

C4_Witness ==
    /\ pc = "select"
    /\ Cur = 2
    /\ subs = <<"canceled", "live">>
    /\ Log("main", 1, "EOF") \in logged

\* C5: with API_VERSION unset or both URLs empty, startup ends in log.Fatal
\* and no subscription or delivery ever exists; once the loop runs the
\* configuration has a non-empty endpoint and never changes.
C5_StartupValidation ==
    /\ []((env.API_VERSION = "" \/ (env.SLACK_URL = "" /\ env.DISCORD_URL = ""))
            => (pc \in {"main", "fatal"} /\ subs = <<>> /\ tasks = <<>>
                    /\ logCalls = {}))
    /\ [](Running => (/\ ~config.null
                      /\ (config.SlackURL # "" \/ config.DiscordURL # "")
                      /\ config.SlackURL = env.SLACK_URL
                      /\ config.DiscordURL = env.DISCORD_URL))
    /\ [][pc # "main" => config' = config]_vars
    /\ [][env' = env]_vars

C5_Witness ==
    /\ pc = "fatal"
    /\ env.API_VERSION # ""
    /\ env.SLACK_URL = "" /\ env.DISCORD_URL = ""
    /\ logged = {Log("main", 0, "SLACK_URL and/or DISCORD_URL must be set")}

\* C6: once startup has succeeded the process never exits; the watch loop
\* leaves its streaming positions only by receiving from errChan; a failed
\* classification or log fetch and a failed POST are logged where they
\* happen, and the loop is at its select again.
C6_ErrorsNeverEndTheLoop ==
    /\ [][Running => Running']_vars
    /\ [][(Streaming /\ ~Streaming')
            => (pc = "select" /\ errChan # <<>> /\ Len(errChan') < Len(errChan))]_vars
    /\ [][(pc \in {"logs", "read"} /\ pc' # pc /\ ~Spawned)
            => (pc' \in {"select", "read"}
                /\ (pc' = "select" => EventLogs(nRecv)' # EventLogs(nRecv)))]_vars
    /\ [](\A t \in 1..Len(tasks) :
            (tasks[t].pc = "done" /\ BothSinks /\ Len(tasks[t].posts) = 1)
                => Log("send", t, "post error") \in logged)

\* After a failed POST and a failed log fetch the loop is still at its select.
C6_Witness ==
    /\ pc = "select"
    /\ nRecv = 2
    /\ Log("send", 1, "post error") \in logged
    /\ Log("event", 2, "read error") \in logged

\* C7: receiving a start event that has a name attribute starts a delivery
\* of a payload with one attachment: the documented title, color #9ccc65,
\* the event's time, no body text; no log fetch is made for it.
C7_StartPayload ==
    /\ [][(Received /\ msg'.Status = "start" /\ "name" \in DOMAIN msg'.Attributes)
            => (/\ Spawned
                /\ NewTask.ev = nRecv'
                /\ ~NewTask.m.null
                /\ NewTask.m.Text = ""
                /\ Len(NewTask.m.Attachments) = 1
                /\ NewTask.m.Attachments[1].Title =
                        "Container started. name => " \o msg'.Attributes["name"]
                            \o " image => " \o msg'.From
                /\ NewTask.m.Attachments[1].Color = "#9ccc65"
                /\ NewTask.m.Attachments[1].TS = msg'.Time
                /\ NewTask.m.Attachments[1].Text = ""
                /\ logCalls' = logCalls
                /\ pc' = "select")]_vars
    /\ [](\A t \in 1..Len(tasks) :
            tasks[t].msg.Status = "start"
                => \A c \in logCalls : c.ev # tasks[t].ev)

\* The spec's scenario 1 as the second event of a run, after a die event.
C7_Witness ==
    /\ nRecv = 2
    /\ logCalls # {}
    /\ \E t \in 1..Len(tasks) :
        /\ tasks[t].ev = 2
        /\ tasks[t].msg.Status = "start"
        /\ tasks[t].m.Attachments[1].Title =
                "Container started. name => web1 image => nginx:latest"
        /\ tasks[t].m.Attachments[1].Color = "#9ccc65"
        /\ tasks[t].m.Attachments[1].TS = 2000

\* C8: a start event without name, and a die event without name or exitCode,
\* fails classification, is logged once and dropped: no delivery goroutine,
\* hence no POST, ever exists for it, no read of its log is started, and the
\* loop is at its select again.
C8_MalformedEventDropped ==
    /\ [](\A e \in Events(1) :
            /\ (e.Status = "start" /\ "name" \notin DOMAIN e.Attributes)
                => (makeStartMessage(e).err # Nil /\ makeStartMessage(e).m.null)
            /\ (e.Status = "die" /\ ~({"name", "exitCode"} \subseteq DOMAIN e.Attributes))
                => \A r \in Readers :
                      /\ makeDieMessage(e, ReadAll(r)).err \in {"no name", "no exitCode"}
                      /\ makeDieMessage(e, ReadAll(r)).m.null)
    /\ [](\A t \in 1..Len(tasks) :
            /\ tasks[t].msg.Status \in {"start", "die"}
            /\ "name" \in DOMAIN tasks[t].msg.Attributes
            /\ tasks[t].msg.Status = "die" => "exitCode" \in DOMAIN tasks[t].msg.Attributes)
    /\ [](pc = "read" => {"name", "exitCode"} \subseteq DOMAIN msg.Attributes)
    /\ [][(Received /\ msg'.Status = "start" /\ "name" \notin DOMAIN msg'.Attributes)
            => (/\ tasks' = tasks
                /\ pc' = "select"
                /\ logged' = logged \cup {Log("event", nRecv', "no name")})]_vars
    /\ [][(/\ pc = "logs" /\ pc' # "logs"
           /\ ~({"name", "exitCode"} \subseteq DOMAIN msg.Attributes))
            => (/\ tasks' = tasks
                /\ pc' = "select"
                /\ \E x \in {"no name", "no exitCode", "logs error"} :
                      logged' = logged \cup {Log("event", nRecv, x)})]_vars
    /\ [](\A i \in 1..nRecv : Cardinality(EventLogs(i)) <= 1)

\* Two malformed events were received and dropped, and the loop goes on.
C8_Witness ==
    /\ pc = "select"
    /\ nRecv = 2
    /\ tasks = <<>>
    /\ logged = {Log("event", 1, "no name"), Log("event", 2, "no exitCode")}

\* C9: for a die event with name and exitCode whose reader was opened and
\* read to its end, yielding the bytes L, a delivery starts of a payload with
\* one attachment: color #c62828, the documented title, the event's time, and
\* the text L between two three-backquote markers.
C9_DiePayload ==
    /\ [](pc = "read" => (/\ msg.Status = "die"
                          /\ {"name", "exitCode"} \subseteq DOMAIN msg.Attributes
                          /\ reader.open))
    /\ [][(pc = "logs" /\ pc' = "select"
                /\ {"name", "exitCode"} \subseteq DOMAIN msg.Attributes)
            => logged' = logged \cup {Log("event", nRecv, "logs error")}]_vars
    /\ [][(pc = "read" /\ pc' # "read" /\ ~reader.fails)
            => (/\ Spawned
                /\ NewTask.ev = nRecv
                /\ ~NewTask.m.null
                /\ Len(NewTask.m.Attachments) = 1
                /\ NewTask.m.Attachments[1].Color = "#c62828"
                /\ NewTask.m.Attachments[1].Title =
                        "Container died. name => " \o msg.Attributes["name"]
                            \o " image => " \o msg.From
                            \o " status code => " \o msg.Attributes["exitCode"]
                /\ NewTask.m.Attachments[1].TS = msg.Time
                /\ NewTask.m.Attachments[1].Text =
                        BQ \o BQ \o BQ \o reader.data \o BQ \o BQ \o BQ)]_vars

\* An empty log, and the spec's scenario 2 as the second event.
C9_Witness ==
    /\ Len(tasks) = 2
    /\ tasks[1].m.Attachments[1].Text = "<bq><bq><bq><bq><bq><bq>"
    /\ tasks[2].m.Attachments[1].Title =
            "Container died. name => web1 image => nginx:latest status code => 137"
    /\ tasks[2].m.Attachments[1].Text = "<bq><bq><bq>oom-killed<bq><bq><bq>"
    /\ tasks[2].m.Attachments[1].TS = 2000
    /\ tasks[2].m.Attachments[1].Color = "#c62828"

\* C10: receiving an event whose status is neither start nor die changes
\* nothing but the message variable: no payload, no log fetch, no delivery
\* goroutine, nothing logged, and the loop is at its select on the same live
\* subscription.
C10_OtherStatusIgnored ==
    [][(Received /\ msg'.Status \notin {"start", "die"})
        => (/\ UNCHANGED <<env, config, pc, subs, srcDone, errChan, reader,
                           logCalls, tasks, logged>>
            /\ pc' = "select"
            /\ subs'[Cur] = "live")]_vars

C10_Witness ==
    /\ nRecv = 2
    /\ msg.Status = "create"
    /\ pc = "select"
    /\ Len(tasks) = 1
    /\ logCalls = {}

-----------------------------------------------------------------------------
(* Shorthands of the delivery properties *)

Tasks == 1..Len(tasks)
Urls(t) == [i \in 1..Len(tasks[t].posts) |-> tasks[t].posts[i].u]
OneSink == (config.SlackURL = "") # (config.DiscordURL = "")
TheSink == IF config.SlackURL # "" THEN config.SlackURL ELSE config.DiscordURL
Pending(t) == tasks[t].pc \in {"start", "slack", "discord"}

\* C11: no POST goes to an empty URL or to a URL the configuration does not
\* hold; with exactly one of the two URLs set, a delivery that has run posts
\* to that URL and to nothing else.
C11_NoPostToEmptyEndpoint ==
    \A t \in Tasks :
        /\ \A i \in 1..Len(tasks[t].posts) :
              /\ tasks[t].posts[i].u # ""
              /\ tasks[t].posts[i].u \in {config.SlackURL, config.DiscordURL}
        /\ (OneSink /\ tasks[t].pc # "start") => Urls(t) = <<TheSink>>

\* Only DISCORD_URL is set, and two deliveries have finished.
C11_Witness ==
    /\ config.SlackURL = ""
    /\ config.DiscordURL = "https://discord.test/api/webhooks/D"
    /\ Len(tasks) = 2
    /\ \A t \in Tasks :
          tasks[t].pc = "done"
              /\ Urls(t) = <<"https://discord.test/api/webhooks/D">>

\* C12: messages are received one at a time, only at the select, the n-th
\* received being the source's n-th; an event yields at most one delivery and
\* at most one log fetch, deliveries are started in the order of their
\* events, and a reconnect receives, fetches and delivers nothing again.
C12_EachEventOnceInOrder ==
    /\ [][nRecv' = nRecv
            \/ (Received /\ pc = "select" /\ msg' \in Events(nRecv + 1))]_vars
    /\ [][msg' # msg => Received]_vars
    /\ [][Len(tasks') = Len(tasks)
            \/ (Spawned /\ OldTasksKept /\ NewTask.ev = nRecv' /\ NewTask.msg = msg')]_vars
    /\ [](\A t \in Tasks : tasks[t].ev \in 1..nRecv
                                /\ tasks[t].msg.Time = 1000 * tasks[t].ev)
    /\ [](\A s, t \in Tasks : s < t => tasks[s].ev < tasks[t].ev)
    /\ [](\A c, d \in logCalls : c.ev = d.ev => c = d)
    /\ [][subs' # subs
            => UNCHANGED <<nRecv, msg, tasks, logCalls, reader>>]_vars

\* A die event delivered on the first subscription, and after the reconnect
\* one on the second: two fetches, two deliveries.
C12_Witness ==
    /\ Cur = 2
    /\ nRecv = 2
    /\ {[ev |-> c.ev, ctx |-> c.ctx] : c \in logCalls}
            = {[ev |-> 1, ctx |-> 1], [ev |-> 2, ctx |-> 2]}
    /\ Len(tasks) = 2
    /\ tasks[1].ev = 1 /\ tasks[2].ev = 2

\* C13: the step that cancels the subscription's context, and the step that
\* opens the next subscription, leave every delivery as it is; a delivery
\* only ever moves by its own steps, from a pending POST to the next POST or
\* to its end.
C13_DeliveriesSurviveReconnect ==
    /\ [][subs' # subs => tasks' = tasks]_vars
    /\ [][(pc = "loop" /\ pc' # "loop") => (pc' = "select" /\ tasks' = tasks)]_vars
    /\ [][\A t \in Tasks :
            tasks'[t].pc # tasks[t].pc
                => (/\ pc' = pc /\ subs' = subs
                    /\ <<tasks[t].pc, tasks'[t].pc>> \in
                          {<<"start", "slack">>, <<"start", "discord">>,
                           <<"slack", "discord">>, <<"slack", "done">>,
                           <<"discord", "done">>}
                    /\ (tasks'[t].pc = "done"
                          => (Len(tasks[t].posts) >= 1
                                /\ tasks'[t].posts = tasks[t].posts)))]_vars

\* The context has just been canceled while a POST is pending.
C13_Witness ==
    /\ pc = "loop"
    /\ Cur = 1
    /\ subs[1] = "canceled"
    /\ Len(tasks) = 1
    /\ tasks[1].pc = "slack"

\* C14: a delivery posts at most once to each configured URL, whatever the
\* outcome, and every POST of a delivery carries the one serialization of its
\* message.
C14_NoRetrySameBytes ==
    \A t \in Tasks :
        /\ \A i, j \in 1..Len(tasks[t].posts) :
              tasks[t].posts[i].u = tasks[t].posts[j].u => i = j
        /\ Len(tasks[t].posts)
              <= Cardinality({config.SlackURL, config.DiscordURL} \ {""})
        /\ \A i \in 1..Len(tasks[t].posts) :
              /\ tasks[t].posts[i].body = Marshal(tasks[t].m)
              /\ tasks[t].posts[i].body = tasks[t].b
        /\ tasks[t].pc = "start" => tasks[t].b = NoBody

\* A failed POST to Slack is the only POST of its delivery, and another
\* delivery has posted the same bytes to both endpoints.
C14_Witness ==
    /\ Len(tasks) = 2
    /\ tasks[1].pc = "done" /\ Len(tasks[1].posts) = 1
    /\ Log("send", 1, "post error") \in logged
    /\ tasks[2].pc = "done" /\ Len(tasks[2].posts) = 2
    /\ tasks[2].posts[1].body = tasks[2].posts[2].body

-----------------------------------------------------------------------------
\* C15: a log fetch that has started ends, so that the loop is at its select
\* again; in particular a fetch that is pending when the subscription's error
\* is raised ends, and the loop goes on to the reconnect.
C15_LogFetchAlwaysEnds ==
    /\ (pc \in {"logs", "read"}) ~> (pc \notin {"logs", "read"})
    /\ (pc \in {"logs", "read"} /\ errChan # <<>>) ~> (pc = "loop")

JsonKeys ==
    {"fallback", "pretext", "color", "title", "title_link", "text",
     "author_name", "author_link", "author_icon", "footer", "footer_icon",
     "ts", "fields"}
EmptyKeys ==
    {"fallback", "pretext", "title_link", "author_name", "author_link",
     "author_icon", "footer", "footer_icon"}
Bodies ==
    UNION {{tasks[t].posts[i].body : i \in 1..Len(tasks[t].posts)} : t \in Tasks}

\* Every field of the posted body but "fields" is as documented.
WireShapeButFields(b) ==
    /\ DOMAIN b = {"text", "attachments"}
    /\ b.text = ""
    /\ Len(b.attachments) = 1
    /\ DOMAIN b.attachments[1] = JsonKeys
    /\ \A k \in EmptyKeys : b.attachments[1][k] = ""
    /\ b.attachments[1].color \in {"#9ccc65", "#c62828"}
    /\ b.attachments[1].ts \in {1000 * n : n \in 1..nRecv}

\* C16 as stated: every posted body has an empty text and one attachment whose
\* fields other than color, title, text and ts are empty strings, and whose
\* "fields" is the empty list.
C16_WireShapeFieldsEmptyList ==
    \A b \in Bodies :
        /\ WireShapeButFields(b)
        /\ b.attachments[1].fields = [kind |-> "array", elems |-> <<>>]

\* C16 as amended: the same shape, with "fields" serialized as null (Fields
\* is never set, and json.Marshal encodes a nil slice as null).
C16_WireShapeFieldsNull ==
    \A b \in Bodies :
        /\ WireShapeButFields(b)
        /\ b.attachments[1].fields = [kind |-> "null", elems |-> <<>>]

\* A start payload and a die payload have both been posted.
C16_Witness ==
    /\ \E b \in Bodies : b.attachments[1].color = "#9ccc65" /\ b.attachments[1].text = ""
    /\ \E b \in Bodies : b.attachments[1].color = "#c62828"
                            /\ b.attachments[1].text = "<bq><bq><bq>oom-killed<bq><bq><bq>"

\* C17: while cli.ContainerLogs or the read of its reader is pending, the loop
\* receives no message and no error and opens no subscription; the delivery
\* of a die event starts in the step in which the read returns, that of a
\* start event in the step in which the event is received.
C17_LogFetchIsSynchronous ==
    /\ [][(pc \in {"logs", "read"})
            => (/\ nRecv' = nRecv /\ msg' = msg /\ subs' = subs
                /\ Len(errChan') >= Len(errChan)
                /\ pc' \in {"logs", "read", "select"})]_vars
    /\ [][(Spawned /\ NewTask.msg.Status = "die")
            => (pc = "read" /\ pc' = "select" /\ reader.open /\ ~reader'.open)]_vars
    /\ [][(Spawned /\ NewTask.msg.Status = "start")
            => (pc = "select" /\ Received /\ logCalls' = logCalls)]_vars
    /\ [](\A t \in Tasks : tasks[t].msg.Status = "die"
            => (tasks[t].ev < nRecv \/ pc \notin {"logs", "read"}))

\* The read is pending while the subscription's error waits on errChan.
C17_Witness ==
    /\ pc = "read"
    /\ errChan = <<"EOF">>
    /\ subs[Cur] = "live"
    /\ nRecv = 1

\* C18: every context but the one of the current call of start is canceled,
\* a subscription is opened only when the previous context is canceled, and
\* the step that receives from errChan cancels the current context.
C18_OneLiveSubscription ==
    /\ [](\A k \in 1..Len(subs) : k < Cur => subs[k] = "canceled")
    /\ [](Cardinality({k \in 1..Len(subs) : subs[k] = "live"}) <= 1)
    /\ [](pc = "loop" => \A k \in 1..Len(subs) : subs[k] = "canceled")
    /\ [](pc \in {"select", "logs", "read"} => subs[Cur] = "live")
    /\ [][Len(subs') # Len(subs)
            => (/\ Len(subs') = Len(subs) + 1
                /\ subs'[Cur + 1] = "live"
                /\ \A k \in 1..Len(subs) : subs[k] = "canceled" /\ subs'[k] = "canceled")]_vars
    /\ [][Len(errChan') < Len(errChan)
            => (Len(subs') > Len(subs) \/ subs'[Cur] = "canceled")]_vars

C18_Witness ==
    /\ pc = "loop"
    /\ Cur = 1
    /\ subs = <<"canceled">>
    /\ nRecv = 2

\* C19: with both URLs set a delivery posts to Slack first and to Discord
\* second; the POST to Discord starts in the step in which the POST to Slack
\* returns, without an error logged, and no POST starts after it.
C19_SlackThenDiscord ==
    /\ [](\A t \in Tasks : BothSinks
            => (/\ Urls(t) \in {<<>>, <<config.SlackURL>>,
                                <<config.SlackURL, config.DiscordURL>>}
                /\ tasks[t].pc = "slack" => Urls(t) = <<config.SlackURL>>
                /\ tasks[t].pc = "discord"
                      => (/\ Urls(t) = <<config.SlackURL, config.DiscordURL>>
                          /\ Log("send", t, "post error") \notin logged)))
    /\ [][\A t \in Tasks :
            (BothSinks /\ Len(tasks'[t].posts) > Len(tasks[t].posts))
                => (/\ Len(tasks'[t].posts) = Len(tasks[t].posts) + 1
                    /\ SubSeq(tasks'[t].posts, 1, Len(tasks[t].posts)) = tasks[t].posts
                    /\ IF tasks[t].pc = "start"
                       THEN tasks'[t].pc = "slack"
                       ELSE /\ tasks[t].pc = "slack"
                            /\ tasks'[t].pc = "discord"
                            /\ logged' = logged)]_vars

C19_Witness ==
    /\ BothSinks
    /\ Len(tasks) = 1
    /\ tasks[1].pc = "discord"
    /\ Len(tasks[1].posts) = 2
    /\ tasks[1].posts[2].u = "https://discord.test/api/webhooks/D"

\* C20: a delivery that has run has made at least one POST, of the
\* serialization of its message.
C20_EveryDeliveryPosts ==
    \A t \in Tasks :
        tasks[t].pc # "start"
            => (/\ Len(tasks[t].posts) >= 1
                /\ tasks[t].posts[1].body = Marshal(tasks[t].m)
                /\ tasks[t].posts[1].u # "")

\* Only SLACK_URL is set; a delivery ended with its single POST failed.
C20_Witness ==
    /\ config.DiscordURL = ""
    /\ Len(tasks) = 1
    /\ tasks[1].pc = "done"
    /\ Len(tasks[1].posts) = 1
    /\ Log("send", 1, "post error") \in logged

====
